---- MODULE Spec2Model ----
(***************************************************************************)
(* Model of the two image scripts of website/images:                       *)
(*   create_appstore_screenshots.py  scale-to-fit + letterbox on a canvas  *)
(*   create_mockups.py               stretch + rounded mask + bezel overlay*)
(* together with their batch loops (main).                                 *)
(*                                                                         *)
(* Python's float is an IEEE-754 binary64.  The scale factor is a float    *)
(* and the new dimensions are int() of a float product, so the arithmetic  *)
(* is modelled on its 53-bit significand, not on the reals.                *)
(***************************************************************************)
EXTENDS Integers, Sequences, FiniteSets, TLC

\* ------------------------------------------------------------ constants

APPSTORE_WIDTH == 1284

APPSTORE_HEIGHT == 2778

SCREEN_LEFT == 90

SCREEN_TOP == 90

SCREEN_RIGHT == 1268

SCREEN_BOTTOM == 2645

CORNER_RADIUS == 110

\* Significand bits of a Python float (binary64).
FloatPrecision == 53

\* ------------------------------------------------------- float arithmetic
\* A float is [m |-> <<1, l1, l2, l3, l4>>, e |-> k]: the 53-bit significand
\* 1 l1 l2 l3 l4 written in limbs of 13 bits, times 2^k.

LimbBits == FloatPrecision \div 4

LimbBase == 2^LimbBits

\* t with b * 2^t <= a < b * 2^(t+1), for a, b >= 1.
RECURSIVE Log2Ratio(_, _)
Log2Ratio(a, b) ==
    IF a < b THEN Log2Ratio(2 * a, b) - 1
    ELSE IF a >= 2 * b THEN Log2Ratio(a, 2 * b) + 1
    ELSE 0

\* n further quotient limbs of r / b (0 <= r < b) by long division.
RECURSIVE DivLimbs(_, _, _, _)
DivLimbs(r, b, n, acc) ==
    IF n = 0 THEN [limbs |-> acc, rem |-> r]
    ELSE DivLimbs((r * LimbBase) % b, b, n - 1,
                  Append(acc, (r * LimbBase) \div b))

\* limbs + 1, the carry running up from the low limb; the top limb is
\* not reduced (a significand of all ones becomes <<2, 0, 0, 0, 0>>).
RECURSIVE IncLimbs(_)
IncLimbs(limbs) ==
    LET n == Len(limbs)
    IN  IF n = 1 THEN <<limbs[1] + 1>>
        ELSE IF limbs[n] + 1 < LimbBase
             THEN [limbs EXCEPT ![n] = limbs[n] + 1]
             ELSE Append(IncLimbs(SubSeq(limbs, 1, n - 1)), 0)

\* The float of significand limbs (+1 when up) and exponent e, renormalised
\* when the increment carries out of the 53 bits.
Rounded(limbs, up, e) ==
    LET inc == IncLimbs(limbs)
    IN  IF ~up THEN [m |-> limbs, e |-> e]
        ELSE IF inc[1] = 2 THEN [m |-> [inc EXCEPT ![1] = 1], e |-> e + 1]
        ELSE [m |-> inc, e |-> e]

\* a / b for ints a, b >= 1: Python's true division, correctly rounded
\* (round to nearest, ties to even).
FloatDiv(a, b) ==
    LET t  == Log2Ratio(a, b)
        A  == IF t < 0 THEN a * 2^(-t) ELSE a
        B  == IF t > 0 THEN b * 2^t ELSE b
        d  == DivLimbs(A - B, B, 4, <<1>>)
        up == 2 * d.rem > B \/ (2 * d.rem = B /\ d.limbs[5] % 2 = 1)
    IN  Rounded(d.limbs, up, t - (FloatPrecision - 1))

\* limbs * k (k >= 1) from the low limb up; the top limb takes the carry.
RECURSIVE MulLimbs(_, _, _)
MulLimbs(limbs, k, carry) ==
    LET n == Len(limbs)
        v == k * limbs[n] + carry
    IN  IF n = 1 THEN <<v>>
        ELSE Append(MulLimbs(SubSeq(limbs, 1, n - 1), k, v \div LimbBase),
                    v % LimbBase)

\* Number of bits of n >= 1.
RECURSIVE BitLength(_)
BitLength(n) == IF n <= 1 THEN 1 ELSE 1 + BitLength(n \div 2)

\* n * f for an int n >= 1 (converted exactly) and a float f: the exact
\* product, shifted right until 53 bits are left and rounded to nearest,
\* ties to even.
FloatMulInt(n, f) ==
    LET P       == MulLimbs(f.m, n, 0)
        d       == BitLength(P[1]) - 1
        lowMod  == 2^d
        S       == [i \in 1..5 |->
                      IF i = 1 THEN P[1] \div lowMod
                      ELSE (P[i - 1] % lowMod) * 2^(LimbBits - d)
                           + P[i] \div lowMod]
        dropped == P[5] % lowMod
        guard   == d >= 1 /\ dropped \div 2^(d - 1) = 1
        sticky  == d >= 2 /\ dropped % 2^(d - 1) # 0
        up      == guard /\ (sticky \/ S[5] % 2 = 1)
    IN  Rounded(S, up, f.e + d)

RECURSIVE LimbsToInt(_)
LimbsToInt(limbs) ==
    IF limbs = << >> THEN 0
    ELSE LimbBase * LimbsToInt(SubSeq(limbs, 1, Len(limbs) - 1))
         + limbs[Len(limbs)]

\* int(f): truncation toward zero of a positive float.
FloatToInt(f) ==
    LET nbits == FloatPrecision + f.e
        k     == -f.e
    IN  IF nbits <= 0 THEN 0
        ELSE IF f.e >= 0 THEN LimbsToInt(f.m) * 2^f.e
        ELSE LimbsToInt(SubSeq(f.m, 1, 5 - k \div LimbBits))
             \div 2^(k % LimbBits)

\* int(n * (a / b)) as lines 32-33 and 37-38 compute it.
ScaledInt(n, a, b) == FloatToInt(FloatMulInt(n, FloatDiv(a, b)))

\* ------------------------------------------------- create_appstore_screenshot

\* Bound of the exhaustive range of source widths and heights.
MaxDim == 14

\* Source widths and heights beyond the exhaustive range: the sizes of the
\* documented examples (1170 x 2532, 1000 x 1000), the canvas sizes and
\* their neighbours, and sizes whose scale factor is not a binary fraction.
SampleDims == {21, 39, 55, 119, 1000, 1170, 1284, 1285, 2532, 2778, 2779}

Dims == (1..MaxDim) \cup SampleDims

\* Lines 31-41 with the height test of line 35 never taken.
NewSizeFitWidthOnly(w, h) ==
    <<APPSTORE_WIDTH, ScaledInt(h, APPSTORE_WIDTH, w)>>

\* Lines 31-41 with line 35 reading new_height >= APPSTORE_HEIGHT.
NewSizeEagerFallback(w, h) ==
    LET new_height == ScaledInt(h, APPSTORE_WIDTH, w)
    IN  IF new_height >= APPSTORE_HEIGHT
        THEN <<ScaledInt(w, APPSTORE_HEIGHT, h), APPSTORE_HEIGHT>>
        ELSE <<APPSTORE_WIDTH, new_height>>

\* Lines 31-41 with the fallback scaling the width by the width's own
\* scale factor (scale not recomputed).
NewSizeStaleScale(w, h) ==
    LET new_height == ScaledInt(h, APPSTORE_WIDTH, w)
    IN  IF new_height > APPSTORE_HEIGHT
        THEN <<ScaledInt(w, APPSTORE_WIDTH, w), APPSTORE_HEIGHT>>
        ELSE <<APPSTORE_WIDTH, new_height>>

\* <<new_width, new_height>> for a source of orig_width w, orig_height h.
NewSize(w, h) ==
    LET new_height == ScaledInt(h, APPSTORE_WIDTH, w)
    IN  IF new_height > APPSTORE_HEIGHT
        THEN <<ScaledInt(w, APPSTORE_HEIGHT, h), APPSTORE_HEIGHT>>
        ELSE <<APPSTORE_WIDTH, new_height>>

\* Whether line 35 took the fit-height branch.
FitHeightBranch(w, h) == ScaledInt(h, APPSTORE_WIDTH, w) > APPSTORE_HEIGHT

\* img.resize(size): Pillow refuses a size with a side below one pixel
\* (ValueError), otherwise the result has exactly that size.
ResizeAccepts(size) == size[1] >= 1 /\ size[2] >= 1

\* Lines 50-51: the paste position <<x, y>>.
PasteOffset(new) ==
    <<(APPSTORE_WIDTH - new[1]) \div 2, (APPSTORE_HEIGHT - new[2]) \div 2>>

Black == [rgb |-> <<"fill", 0, 0>>, a |-> 255]

\* The call's outcome for a decoded source of size <<w, h>>: the resize
\* argument, and, when the resize succeeds, the canvas that is saved.
create_appstore_screenshot(w, h) ==
    LET new == NewSize(w, h)
        off == PasteOffset(new)
    IN  [kind    |-> "appstore",
         orig    |-> <<w, h>>,
         resize  |-> new,
         raised  |-> ~ResizeAccepts(new),
         canvas  |-> <<APPSTORE_WIDTH, APPSTORE_HEIGHT>>,
         paste   |-> off]

\* Pixel (px, py) of the saved canvas of an appstore call c: the canvas is
\* black (line 47) except where line 52 pasted the resized image.
CanvasPixel(c, px, py) ==
    IF /\ px >= c.paste[1] /\ px < c.paste[1] + c.resize[1]
       /\ py >= c.paste[2] /\ py < c.paste[2] + c.resize[2]
    THEN [rgb |-> <<"img", px - c.paste[1], py - c.paste[2]>>, a |-> 255]
    ELSE Black

\* -------------------------------------------------------------- create_mockup

\* A decoded bezel: its size, the rectangle hole where its alpha is 0, and
\* a rectangle shade where its alpha is 128 (a drop shadow); its alpha is
\* 255 elsewhere.  Rectangles are <<left, top, right, bottom>>, right and
\* bottom excluded.
NoRect == <<0, 0, 0, 0>>

ScreenRect == <<SCREEN_LEFT, SCREEN_TOP, SCREEN_RIGHT, SCREEN_BOTTOM>>

Frames ==
    { [size |-> <<1359, 2736>>, hole |-> ScreenRect, shade |-> NoRect],
      [size |-> <<1359, 2736>>, hole |-> <<60, 60, 1300, 2700>>,
       shade |-> NoRect],
      [size |-> <<1359, 2736>>, hole |-> <<200, 234, 1000, 2000>>,
       shade |-> NoRect],
      [size |-> <<1359, 2736>>, hole |-> NoRect, shade |-> NoRect],
      [size |-> <<1359, 2736>>, hole |-> <<0, 0, 1359, 2736>>,
       shade |-> NoRect],
      [size |-> <<1000, 2000>>, hole |-> <<90, 90, 1000, 2000>>,
       shade |-> NoRect],
      [size |-> <<1359, 2736>>, hole |-> ScreenRect,
       shade |-> <<0, 2645, 1359, 2736>>] }

\* A decoded screenshot: its size and whether its own alpha is opaque.
Shots ==
    { [kind |-> "image", size |-> sz, opaque |-> o] :
        sz \in {<<1170, 2532>>, <<1, 1>>, <<2532, 1170>>}, o \in BOOLEAN }

InRect(rect, px, py) ==
    /\ px >= rect[1] /\ px < rect[3]
    /\ py >= rect[2] /\ py < rect[4]

Transparent == [rgb |-> <<"fill", 0, 0>>, a |-> 0]

\* Pixel (px, py) of the bezel after convert("RGBA").
BezelPixel(f, px, py) ==
    [rgb |-> <<"bezel", px, py>>,
     a   |-> IF InRect(f.hole, px, py) THEN 0
             ELSE IF InRect(f.shade, px, py) THEN 128 ELSE 255]

\* Pixel (i, j) of the screenshot stretched to the screen size (line 64).
StretchedPixel(shot, i, j) ==
    [rgb |-> <<"shot", i, j>>, a |-> IF shot.opaque THEN 255 ELSE 64]

\* Lines 39-41: the "L" mask of size w x h, 0 except inside the rounded
\* rectangle drawn over [(0, 0), (w, h)] (both corners included, so the
\* far corners are centred one pixel further out than the near ones).
RoundedMask(w, h, radius, i, j) ==
    LET cx == IF i < radius THEN radius
              ELSE IF i > w - radius THEN w - radius ELSE i
        cy == IF j < radius THEN radius
              ELSE IF j > h - radius THEN h - radius ELSE j
    IN  IF (i - cx) * (i - cx) + (j - cy) * (j - cy) <= radius * radius
        THEN 255 ELSE 0

\* Lines 44-45: putalpha replaces the image's alpha by the mask.
add_rounded_corners(shot, w, h, radius, i, j) ==
    [rgb |-> StretchedPixel(shot, i, j).rgb,
     a   |-> RoundedMask(w, h, radius, i, j)]

\* Image.alpha_composite with the layers swapped.
AlphaCompositeUnder(dst, src) ==
    IF dst.a = 255 THEN dst ELSE src

\* Image.alpha_composite(dst, src) on one pixel: src over dst.
AlphaComposite(dst, src) ==
    IF src.a = 0 THEN dst
    ELSE IF src.a = 255 THEN src
    ELSE [rgb |-> <<"blend", src.a, dst.a>>,
          a   |-> src.a + (dst.a * (255 - src.a)) \div 255]

\* Line 74: where the masked screenshot is pasted.
PastePosition == <<SCREEN_LEFT, SCREEN_TOP>>

\* The call's outcome for a decoded bezel f and screenshot shot.
create_mockup(f, shot) ==
    [kind   |-> "mockup",
     shot   |-> shot,
     bezel  |-> f,
     screen |-> <<SCREEN_RIGHT - SCREEN_LEFT, SCREEN_BOTTOM - SCREEN_TOP>>,
     radius |-> CORNER_RADIUS,
     paste  |-> PastePosition,
     size   |-> f.size]

\* Pixel (px, py) of the transparent canvas of line 71 after the paste of
\* line 74 (no mask: the pasted pixels replace the canvas's, alpha too).
PastedPixel(c, px, py) ==
    IF InRect(<<c.paste[1], c.paste[2],
                c.paste[1] + c.screen[1], c.paste[2] + c.screen[2]>>, px, py)
    THEN add_rounded_corners(c.shot, c.screen[1], c.screen[2], c.radius,
                             px - c.paste[1], py - c.paste[2])
    ELSE Transparent

\* Pixel (px, py) of the saved mockup (line 77).
MockupPixel(c, px, py) ==
    AlphaComposite(PastedPixel(c, px, py), BezelPixel(c.bezel, px, py))

\* ------------------------------------------------------------------- main

\* A manifest entry is a file name, kept as os.path.splitext splits it.
File(base) == [base |-> base, ext |-> ".PNG"]

APPSTORE_SCREENSHOTS ==
    <<File("PreWorkout"), File("Workout"), File("Activity"), File("Bubble")>>

MOCKUP_SCREENSHOTS ==
    <<File("PreWorkout"), File("Workout"), File("Activity"), File("Bubble"),
      File("Splash")>>

Scripts == {"appstore", "mockups"}

SCREENSHOTS(s) ==
    IF s = "appstore" THEN APPSTORE_SCREENSHOTS ELSE MOCKUP_SCREENSHOTS

Range(seq) == {seq[k] : k \in 1..Len(seq)}

\* Lines 71-72 of create_appstore_screenshots.py and 100-102 of
\* create_mockups.py: <<directory, base name, suffix>> of the output.
OutputPath(s, name) ==
    IF s = "appstore" THEN <<"appstore", name.base, "-appstore.png">>
    ELSE <<".", name.base, "-mockup.png">>

NoFrame == [size |-> <<0, 0>>, hole |-> NoRect, shade |-> NoRect]

NoCall == [kind |-> "none"]

NoSource == [kind |-> "none"]

Undecodable == [kind |-> "undecodable"]

VARIABLES
    script,     \* which script's main is running
    bezel,      \* the bezel file's content, NoFrame when the file is missing
    exists,     \* the manifest entries whose source file exists
    pc,         \* "start", "loop", "save" (inside a call, before its save),
                \* "done" (main returned), "raised" (an exception left main)
    i,          \* index of the next manifest entry of the for loop
    visited,    \* the entries the loop has reached, in order
    written,    \* the output paths saved, in order
    failed,     \* the entries whose processing raised
    source,     \* the source image the current call opened
    call        \* what the current call computed from it

vars ==
    <<script, bezel, exists, pc, i, visited, written, failed, source, call>>

Init ==
    /\ script \in Scripts
    /\ bezel \in IF script = "mockups" THEN Frames \cup {NoFrame}
                 ELSE {NoFrame}
    /\ exists \in SUBSET Range(SCREENSHOTS(script))
    /\ pc = "start"
    /\ i = 1
    /\ visited = << >>
    /\ written = << >>
    /\ failed = {}
    /\ source = NoSource
    /\ call = NoCall

\* create_appstore_screenshots.main, lines 58-63: the output directory is
\* made and the loop entered.
AppstoreMainStart ==
    /\ pc = "start" /\ script = "appstore"
    /\ pc' = "loop"
    /\ UNCHANGED <<script, bezel, exists, i, visited, written, failed, source,
                   call>>

\* create_mockups.main entering the loop whether or not the bezel exists.
MockupMainStartUnchecked ==
    /\ pc = "start" /\ script = "mockups"
    /\ pc' = "loop"
    /\ UNCHANGED <<script, bezel, exists, i, visited, written, failed, source,
                   call>>

\* create_mockups.main, lines 84-90: return when the bezel is missing.
MockupMainStart ==
    /\ pc = "start" /\ script = "mockups"
    /\ pc' = IF bezel = NoFrame THEN "done" ELSE "loop"
    /\ UNCHANGED <<script, bezel, exists, i, visited, written, failed, source,
                   call>>

\* The skip of a missing entry written as break instead of continue.
SkipMissingBreaks ==
    /\ pc = "loop" /\ i <= Len(SCREENSHOTS(script))
    /\ SCREENSHOTS(script)[i] \notin exists
    /\ visited' = Append(visited, SCREENSHOTS(script)[i])
    /\ i' = Len(SCREENSHOTS(script)) + 1
    /\ UNCHANGED <<script, bezel, exists, pc, written, failed, source, call>>

\* Lines 67-69 (appstore) and 95-97 (mockups): a missing source is
\* reported and the loop continues with the next entry.
SkipMissing ==
    /\ pc = "loop" /\ i <= Len(SCREENSHOTS(script))
    /\ SCREENSHOTS(script)[i] \notin exists
    /\ visited' = Append(visited, SCREENSHOTS(script)[i])
    /\ i' = i + 1
    /\ UNCHANGED <<script, bezel, exists, pc, written, failed, source, call>>

\* An exception leaves the call and, uncaught, main and its loop.
Raise(name) ==
    /\ pc' = "raised"
    /\ failed' = failed \cup {name}

\* Lines 65-75 for an existing source: the call of line 75 up to the
\* paste of line 52.  Image.open (line 26) raises on a file that is no
\* image and otherwise yields an image of some size; resize (line 44)
\* raises on a size it does not accept.
CallAppstore ==
    /\ pc = "loop" /\ script = "appstore"
    /\ i <= Len(SCREENSHOTS(script))
    /\ SCREENSHOTS(script)[i] \in exists
    /\ visited' = Append(visited, SCREENSHOTS(script)[i])
    /\ \/ /\ source' = Undecodable
          /\ call' = NoCall
          /\ Raise(SCREENSHOTS(script)[i])
       \/ \E w \in Dims, h \in Dims :
            /\ source' = [kind |-> "image", size |-> <<w, h>>, opaque |-> TRUE]
            /\ call' = create_appstore_screenshot(w, h)
            /\ IF call'.raised
               THEN Raise(SCREENSHOTS(script)[i])
               ELSE pc' = "save" /\ failed' = failed
    /\ UNCHANGED <<script, bezel, exists, i, written>>

\* Lines 93-105 for an existing source: the call of line 105 up to the
\* composite of line 77.  Image.open (line 53) raises on a file that is
\* no image.
CallMockup ==
    /\ pc = "loop" /\ script = "mockups"
    /\ i <= Len(SCREENSHOTS(script))
    /\ SCREENSHOTS(script)[i] \in exists
    /\ visited' = Append(visited, SCREENSHOTS(script)[i])
    /\ \/ /\ source' = Undecodable
          /\ call' = NoCall
          /\ Raise(SCREENSHOTS(script)[i])
       \/ \E shot \in Shots :
            /\ source' = shot
            /\ call' = create_mockup(bezel, shot)
            /\ pc' = "save" /\ failed' = failed
    /\ UNCHANGED <<script, bezel, exists, i, written>>

\* canvas.save / result.save (lines 54 and 80): the output is written, the
\* call returns (its images are dropped) and the loop goes on.
SaveAndReturn ==
    /\ pc = "save"
    /\ written' = Append(written, OutputPath(script, SCREENSHOTS(script)[i]))
    /\ pc' = "loop"
    /\ i' = i + 1
    /\ source' = NoSource
    /\ call' = NoCall
    /\ UNCHANGED <<script, bezel, exists, visited, failed>>

\* The for loop is exhausted: "Done!" is printed and main returns.
LoopEnd ==
    /\ pc = "loop" /\ i > Len(SCREENSHOTS(script))
    /\ pc' = "done"
    /\ UNCHANGED <<script, bezel, exists, i, visited, written, failed, source,
                   call>>

Next ==
    \/ AppstoreMainStart
    \/ MockupMainStart
    \/ SkipMissing
    \/ CallAppstore
    \/ CallMockup
    \/ SaveAndReturn
    \/ LoopEnd

Spec == Init /\ [][Next]_vars

\* The interpreter runs main to its end: a step that can be taken is taken.
FairSpec == Spec /\ WF_vars(Next)

\* ----------------------------------------------------------------- claims

\* The latest call is a create_appstore_screenshot call that decoded its
\* source and computed the new size.
AppstoreCall == call.kind = "appstore"

\* The latest call is a create_mockup call that composed its result.
MockupCall == call.kind = "mockup"

orig_width == call.orig[1]

orig_height == call.orig[2]

new_width == call.resize[1]

new_height == call.resize[2]

\* Coordinates next to the given edges, inside 0..limit-1.
Probes(edges, limit) ==
    {e + d : e \in edges, d \in {-1, 0, 1}} \cap (0..(limit - 1))

\* C1: the computed size fits the target box and touches it on at least
\* one axis.
C1_FitsBox ==
    AppstoreCall =>
        /\ new_width <= APPSTORE_WIDTH
        /\ new_height <= APPSTORE_HEIGHT
        /\ (new_width = APPSTORE_WIDTH \/ new_height = APPSTORE_HEIGHT)

\* A tall source scaled by the fit-height branch: the height is pinned and
\* the width lies strictly inside the box.
C1_Witness ==
    /\ AppstoreCall
    /\ FitHeightBranch(orig_width, orig_height)
    /\ new_height = APPSTORE_HEIGHT
    /\ new_width >= 1 /\ new_width < APPSTORE_WIDTH

\* The direct policy on the reals: s = min(W/w, H/h), then
\* <<trunc(w*s), trunc(h*s)>>.
DirectPolicy(w, h) ==
    IF APPSTORE_WIDTH * h <= APPSTORE_HEIGHT * w
    THEN <<APPSTORE_WIDTH, (h * APPSTORE_WIDTH) \div w>>
    ELSE <<(w * APPSTORE_HEIGHT) \div h, APPSTORE_HEIGHT>>

\* C2 as stated: the two-branch scaling computes exactly the direct
\* policy's <<trunc(w*s), trunc(h*s)>> for s = min(W/w, H/h).
C2_EqualsDirectPolicy ==
    AppstoreCall => call.resize = DirectPolicy(orig_width, orig_height)

\* The scaled height h*W/w lies strictly between H and H+1.
InHeightGap(w, h) ==
    /\ h * APPSTORE_WIDTH > APPSTORE_HEIGHT * w
    /\ h * APPSTORE_WIDTH < (APPSTORE_HEIGHT + 1) * w

\* The exact scaled free dimension of the direct policy is a whole number
\* (the only case in which a float product can truncate below it).
WholeQuotient(w, h) ==
    IF APPSTORE_WIDTH * h <= APPSTORE_HEIGHT * w
    THEN (h * APPSTORE_WIDTH) % w = 0
    ELSE (w * APPSTORE_HEIGHT) % h = 0

\* C2 amended: the two-branch scaling differs from the direct policy in at
\* most one axis and by at most one pixel (the width by one either way,
\* the height only by one below), and equals it whenever h*W/w is not
\* strictly between H and H+1 and the direct policy's exact scaled free
\* dimension is not a whole number.
C2_NearDirectPolicy ==
    AppstoreCall =>
        LET d  == DirectPolicy(orig_width, orig_height)
            dw == new_width - d[1]
            dh == new_height - d[2]
        IN  /\ <<dw, dh>> \in {<<0, 0>>, <<1, 0>>, <<-1, 0>>, <<0, -1>>}
            /\ (/\ ~InHeightGap(orig_width, orig_height)
                /\ ~WholeQuotient(orig_width, orig_height))
               => call.resize = d

\* Example A's source: its scaled height 2778.7 is cut to 2778, the width
\* stays pinned at 1284 where the direct policy gives 1283.
C2_Witness ==
    /\ AppstoreCall
    /\ InHeightGap(orig_width, orig_height)
    /\ call.resize = <<APPSTORE_WIDTH, APPSTORE_HEIGHT>>
    /\ DirectPolicy(orig_width, orig_height)
         = <<APPSTORE_WIDTH - 1, APPSTORE_HEIGHT>>

\* The centring of lines 46-52 on the canvas of call c: the canvas size,
\* the offsets, the image inside the canvas, bars that differ by at most a
\* pixel, and the background everywhere outside the pasted rectangle.
LetterboxGeometry(c) ==
    LET x  == c.paste[1]
        y  == c.paste[2]
        nw == c.resize[1]
        nh == c.resize[2]
        W  == c.canvas[1]
        H  == c.canvas[2]
        right  == W - (x + nw)
        bottom == H - (y + nh)
    IN  /\ c.canvas = <<APPSTORE_WIDTH, APPSTORE_HEIGHT>>
        /\ x = (W - nw) \div 2 /\ y = (H - nh) \div 2
        /\ x >= 0 /\ y >= 0 /\ x + nw <= W /\ y + nh <= H
        /\ right - x \in {0, 1} /\ bottom - y \in {0, 1}
        /\ \A px \in Probes({0, x, x + nw, W}, W),
              py \in Probes({0, y, y + nh, H}, H) :
              IF px >= x /\ px < x + nw /\ py >= y /\ py < y + nh
              THEN CanvasPixel(c, px, py).rgb = <<"img", px - x, py - y>>
              ELSE CanvasPixel(c, px, py) = Black

\* C3 as stated: every source of positive size yields a W x H canvas with
\* the scaled image centred inside it and the background around it.
C3_CanvasForEverySource ==
    AppstoreCall => (~call.raised /\ LetterboxGeometry(call))

\* C4: the mockup has the bezel's size; at the pixels where the bezel is
\* opaque it shows the bezel, where the bezel is transparent inside the
\* screen region under an opaque mask pixel it shows the stretched
\* screenshot's pixel, fully opaque, and at every other pixel where the
\* bezel is transparent it is fully transparent.
C4_MockupPixels ==
    (pc = "save" /\ MockupCall) =>
        /\ call.size = bezel.size
        /\ \A px \in Probes({0, bezel.size[1], bezel.hole[1], bezel.hole[3],
                             SCREEN_LEFT, SCREEN_LEFT + 32,
                             SCREEN_LEFT + CORNER_RADIUS,
                             SCREEN_RIGHT - CORNER_RADIUS,
                             SCREEN_RIGHT - 32, SCREEN_RIGHT},
                            bezel.size[1]),
              py \in Probes({0, bezel.size[2], bezel.hole[2], bezel.hole[4],
                             SCREEN_TOP, SCREEN_TOP + 32,
                             SCREEN_TOP + CORNER_RADIUS,
                             SCREEN_BOTTOM - CORNER_RADIUS,
                             SCREEN_BOTTOM - 32, SCREEN_BOTTOM},
                            bezel.size[2]) :
              LET f      == BezelPixel(bezel, px, py)
                  r      == MockupPixel(call, px, py)
                  ii     == px - SCREEN_LEFT
                  jj     == py - SCREEN_TOP
                  shown  == /\ InRect(ScreenRect, px, py)
                            /\ RoundedMask(SCREEN_RIGHT - SCREEN_LEFT,
                                           SCREEN_BOTTOM - SCREEN_TOP,
                                           CORNER_RADIUS, ii, jj) = 255
              IN  /\ f.a = 255 => r = f
                  /\ (f.a = 0 /\ shown) =>
                       /\ r.rgb = StretchedPixel(call.shot, ii, jj).rgb
                       /\ r.a = 255
                  /\ (f.a = 0 /\ ~shown) => r.a = 0

\* A mockup whose bezel hole is wider than the screen region, on a
\* screenshot with alpha of its own: the result shows the bezel at (0, 0),
\* the screenshot inside the rounded corner, and nothing at the screen
\* region's corner pixel nor in the gap between region and bezel.
C4_Witness ==
    /\ pc = "save" /\ MockupCall
    /\ bezel.hole = <<60, 60, 1300, 2700>>
    /\ ~call.shot.opaque
    /\ MockupPixel(call, 0, 0) = BezelPixel(bezel, 0, 0)
    /\ MockupPixel(call, SCREEN_LEFT + 33, SCREEN_TOP + 33).rgb
         = <<"shot", 33, 33>>
    /\ MockupPixel(call, SCREEN_LEFT, SCREEN_TOP).a = 0
    /\ MockupPixel(call, SCREEN_LEFT - 1, SCREEN_TOP + CORNER_RADIUS).a = 0

\* C5 as stated: when the processing of an entry raised, every other entry
\* whose source exists has its output written.
C5_FailureDoesNotBlock ==
    pc = "raised" =>
        \A k \in 1..Len(SCREENSHOTS(script)) :
            (/\ SCREENSHOTS(script)[k] \in exists
             /\ SCREENSHOTS(script)[k] \notin failed)
            => OutputPath(script, SCREENSHOTS(script)[k]) \in Range(written)

\* The outputs of the entries whose source exists, in manifest order.
ExpectedOutputs ==
    LET present == SelectSeq(SCREENSHOTS(script), LAMBDA e : e \in exists)
    IN  [k \in 1..Len(present) |-> OutputPath(script, present[k])]

\* C6: the entries are reached in manifest order; a run that returns from
\* the loop has reached every entry and written exactly the outputs of the
\* existing ones, once each, in order; and a run in which no processing
\* raises does return.
C6_BatchCompletes ==
    /\ [](visited = SubSeq(SCREENSHOTS(script), 1, Len(visited)))
    /\ []((pc = "done" /\ (script = "mockups" => bezel # NoFrame))
            => (visited = SCREENSHOTS(script) /\ written = ExpectedOutputs))
    /\ ([](failed = {}) => <>(pc = "done"))

\* A finished appstore run whose second entry is missing and whose third
\* and fourth were processed after it.
C6_Witness ==
    /\ pc = "done" /\ script = "appstore"
    /\ exists = Range(APPSTORE_SCREENSHOTS) \ {File("Workout")}
    /\ written = <<OutputPath("appstore", File("PreWorkout")),
                   OutputPath("appstore", File("Activity")),
                   OutputPath("appstore", File("Bubble"))>>

\* C7: with the bezel missing, the mockup run never enters the loop: no
\* entry is reached, no call made, no output written.
C7_MissingBezelAborts ==
    (script = "mockups" /\ bezel = NoFrame) =>
        /\ pc \in {"start", "done"}
        /\ visited = << >>
        /\ written = << >>
        /\ call = NoCall

\* The mockup run returned at once although all five sources exist.
C7_Witness ==
    /\ script = "mockups" /\ bezel = NoFrame
    /\ pc = "done"
    /\ exists = Range(MOCKUP_SCREENSHOTS)

\* C8 as stated: the free dimension is the exact scaled dimension cut by
\* less than one pixel: 0 <= h*W/w - new_height < 1 when the width is
\* pinned, 0 <= w*H/h - new_width < 1 when the height is.
C8_TruncationUnderOnePixel ==
    AppstoreCall =>
        IF FitHeightBranch(orig_width, orig_height)
        THEN /\ new_width * orig_height <= orig_width * APPSTORE_HEIGHT
             /\ orig_width * APPSTORE_HEIGHT < (new_width + 1) * orig_height
        ELSE /\ new_height * orig_width <= orig_height * APPSTORE_WIDTH
             /\ orig_height * APPSTORE_WIDTH < (new_height + 1) * orig_width

\* C9: a 1170 x 2532 source on the 1284 x 2778 canvas is resized to
\* 1284 x 2778 and pasted at (0, 0): no bar is left on any side.
C9_ExampleA ==
    (AppstoreCall /\ call.orig = <<1170, 2532>>) =>
        /\ call.canvas = <<1284, 2778>>
        /\ call.resize = <<1284, 2778>>
        /\ call.paste = <<0, 0>>
        /\ ~call.raised
        /\ \A px \in {0, 1283}, py \in {0, 2777} :
              CanvasPixel(call, px, py) # Black

\* Example A's canvas is composed and about to be saved.
C9_Witness ==
    /\ pc = "save" /\ AppstoreCall
    /\ call.orig = <<1170, 2532>>

\* C10 as stated: the size handed to resize has both sides at least 1.
C10_ResizeSizePositive ==
    AppstoreCall => (new_width >= 1 /\ new_height >= 1)

====
